---- MODULE Spec2Model ----
(***************************************************************************)
(* Quest Chronicles: the character record, the turn-based battle           *)
(* (combat_system.SimpleBattle), progression (character_manager) and the   *)
(* inventory / equipment operations (inventory_system), as state machines. *)
(*                                                                         *)
(* Python values are rendered as follows.  A dict is a record or a         *)
(* function with strings as keys.  None in an equipment slot or as the     *)
(* value of check_battle_end is the string "None" (the winner of an escape *)
(* is the different string "none", as in the source).  battle_result,      *)
(* which is None or a dict, is the empty sequence or a one-element         *)
(* sequence holding the record.  A raised exception is recorded by its     *)
(* class name in last.outcome and leaves everything the code had not yet   *)
(* touched unchanged.  random.random() < 0.5 is the boolean input draw.    *)
(***************************************************************************)
EXTENDS Integers, Sequences, FiniteSets, TLC

VARIABLES
    character,      \* the character dict
    enemy,          \* the enemy dict of the current SimpleBattle
    combat_active,  \* SimpleBattle.combat_active
    turn_counter,   \* SimpleBattle.turn_counter
    battle_result,  \* SimpleBattle.battle_result
    last            \* the last call: operation, arguments, outcome, return value

vars == <<character, enemy, combat_active, turn_counter, battle_result, last>>

\* ------------------------------------------------------------------------
\* Bounds of the model
\* ------------------------------------------------------------------------

\* under SpecBattle turns are taken only while turn_counter is below this
MaxTurns == 7

\* under Spec turns are taken only while turn_counter is below this
MaxRounds == 3

\* an item is added or bought only while the inventory holds fewer items
\* than this besides the filler it started with
MaxCarried == 2

\* a call is made only if it leaves strength within this of the value the
\* class and the level give
MaxStrengthBonus == 8

\* a call is made only if it leaves max_health within this of the value the
\* class and the level give
MaxHealthBonus == 10

\* experience is gained only if the level stays at or below this
MaxLevel == 2

\* under SpecInventory the shop is used only while gold stays within this of
\* MaxGold
MaxSpend == 10

\* an item is sold only if gold stays at or below this
MaxGold == 100

\* under SpecProgress experience is gained only if the level stays at or
\* below this
\* the strengths and the healths of the two sides under SpecDuel
MaxDuelStrength == 2

MaxDuelHealth == 3

\* the highest max_health a character starts with under SpecRevive
MaxReviveHealth == 4

\* the highest level a character reaches under SpecEncounter
MaxEncounterLevel == 6

MaxProgressLevel == 4

\* ------------------------------------------------------------------------
\* Values
\* ------------------------------------------------------------------------

None == "None"

Max(a, b) == IF a >= b THEN a ELSE b

Min(a, b) == IF a <= b THEN a ELSE b

Classes == {"Warrior", "Mage", "Rogue", "Cleric"}

EnemyTypes == {"goblin", "orc", "dragon"}

\* the record of one call
Call(op, arg, amount, draw, outcome, ret) ==
    [op |-> op, arg |-> arg, amount |-> amount, draw |-> draw,
     outcome |-> outcome, ret |-> ret]

\* ------------------------------------------------------------------------
\* character_manager.py
\* ------------------------------------------------------------------------

valid_classes ==
    [Warrior |-> [health |-> 120, strength |-> 15, magic |-> 5],
     Mage    |-> [health |-> 80,  strength |-> 8,  magic |-> 20],
     Rogue   |-> [health |-> 90,  strength |-> 12, magic |-> 10],
     Cleric  |-> [health |-> 100, strength |-> 10, magic |-> 15]]

create_character(character_class) ==
    [class           |-> character_class,
     level           |-> 1,
     health          |-> valid_classes[character_class].health,
     max_health      |-> valid_classes[character_class].health,
     strength        |-> valid_classes[character_class].strength,
     magic           |-> valid_classes[character_class].magic,
     experience      |-> 0,
     gold            |-> 100,
     inventory       |-> <<>>,
     equipped_weapon |-> None,
     equipped_armor  |-> None]

is_character_dead(c) == c.health <= 0

\* an if in place of the while loop: one level-up at most per call
level_up_once(c) ==
    IF c.experience >= c.level * 100
    THEN [c EXCEPT !.experience = @ - c.level * 100,
                   !.level = @ + 1,
                   !.max_health = @ + 10,
                   !.strength = @ + 2,
                   !.magic = @ + 2,
                   !.health = c.max_health + 10]
    ELSE c

RECURSIVE level_up_flat(_)
\* the loop with the same threshold of 100 at every level
level_up_flat(c) ==
    IF c.experience >= 100
    THEN level_up_flat([c EXCEPT !.experience = @ - 100,
                                 !.level = @ + 1,
                                 !.max_health = @ + 10,
                                 !.strength = @ + 2,
                                 !.magic = @ + 2,
                                 !.health = c.max_health + 10])
    ELSE c

RECURSIVE level_up(_)
\* the while loop of gain_experience
level_up(c) ==
    IF c.experience >= c.level * 100
    THEN level_up([c EXCEPT !.experience = @ - c.level * 100,
                            !.level = @ + 1,
                            !.max_health = @ + 10,
                            !.strength = @ + 2,
                            !.magic = @ + 2,
                            !.health = c.max_health + 10])
    ELSE c

\* gain_experience without the check of the character's health
gain_experience_unguarded(c, xp_amount) ==
    LET c1 == level_up([c EXCEPT !.experience = @ + xp_amount])
    IN  [character |-> c1, outcome |-> "ok", ret |-> c1.level > c.level]

gain_experience(c, xp_amount) ==
    IF c.health <= 0
    THEN [character |-> c, outcome |-> "CharacterDeadError", ret |-> "None"]
    ELSE LET c1 == level_up([c EXCEPT !.experience = @ + xp_amount])
         IN  [character |-> c1, outcome |-> "ok", ret |-> c1.level > c.level]

heal_character(c, amount) ==
    IF amount < 0
    THEN [character |-> c, outcome |-> "ValueError", ret |-> "None"]
    ELSE LET health == IF c.health + amount <= c.max_health
                       THEN c.health + amount ELSE c.max_health
         IN  [character |-> [c EXCEPT !.health = health], outcome |-> "ok",
              ret |-> health - c.health]

\* an add_gold that does not look at the new total
add_gold_unchecked(c, amount) ==
    [character |-> [c EXCEPT !.gold = c.gold + amount], outcome |-> "ok",
     ret |-> c.gold + amount]

add_gold(c, amount) ==
    LET new_total == c.gold + amount
    IN  IF new_total < 0
        THEN [character |-> c, outcome |-> "ValueError", ret |-> "None"]
        ELSE [character |-> [c EXCEPT !.gold = new_total], outcome |-> "ok",
              ret |-> new_total]

\* a revival to a third of max_health
revive_to_third(c) ==
    IF ~is_character_dead(c)
    THEN [character |-> c, outcome |-> "ok", ret |-> FALSE]
    ELSE [character |-> [c EXCEPT !.health = c.max_health \div 3],
          outcome |-> "ok", ret |-> TRUE]

\* a revival to full health
revive_to_full(c) ==
    IF ~is_character_dead(c)
    THEN [character |-> c, outcome |-> "ok", ret |-> FALSE]
    ELSE [character |-> [c EXCEPT !.health = c.max_health],
          outcome |-> "ok", ret |-> TRUE]

revive_character(c) ==
    IF ~is_character_dead(c)
    THEN [character |-> c, outcome |-> "ok", ret |-> FALSE]
    ELSE [character |-> [c EXCEPT !.health = c.max_health \div 2],
          outcome |-> "ok", ret |-> TRUE]

\* main.handle_character_death: choice "1" revives for 50 gold if the
\* character has them and asks again if not, choice "2" leaves the game
handle_character_death(c, choice) ==
    IF choice = "1" /\ c.gold >= 50
    THEN revive_character([c EXCEPT !.gold = c.gold - 50]).character
    ELSE c

\* ------------------------------------------------------------------------
\* Item data (game_data.load_items): the table all_items maps an item id to
\* its record.  An effect string "stat:value" is the sequence of the stat
\* name, the colon and the characters of the value.
\* ------------------------------------------------------------------------

Item(item_id, type, effect, cost) ==
    [item_id |-> item_id, type |-> type, effect |-> effect, cost |-> cost]

\* the items the calls of the model name
Items == {"potion", "sword", "axe", "armor"}

\* an item that only fills the inventory: no call of the model names it
Filler == "herb"

\* an armor with an odd bonus, worn under SpecProgress
Charm == "charm"

all_items ==
    [i \in Items \cup {Filler, Charm} |->
        CASE i = "potion" -> Item(i, "consumable", <<"health", ":", "2", "0">>, 10)
          [] i = "sword"  -> Item(i, "weapon", <<"strength", ":", "5">>, 25)
          [] i = "axe"    -> Item(i, "weapon", <<"strength", ":", "3">>, 15)
          [] i = "armor"  -> Item(i, "armor", <<"max_health", ":", "1", "0">>, 31)
          [] i = Filler   -> Item(i, "consumable", <<"health", ":", "5">>, 2)
          [] i = Charm    -> Item(i, "armor", <<"max_health", ":", "5">>, 7)]

\* ------------------------------------------------------------------------
\* inventory_system.py
\* ------------------------------------------------------------------------

MAX_INVENTORY_SIZE == 20

\* what an operation leaves: the character, "ok" or the exception raised,
\* and the value returned
Ok(c, ret) == [character |-> c, outcome |-> "ok", ret |-> ret]

Raise(c, exception) == [character |-> c, outcome |-> exception, ret |-> None]

\* item_id in inventory
has_item(c, item_id) == \E k \in 1..Len(c.inventory) : c.inventory[k] = item_id

count_item(c, item_id) ==
    Cardinality({k \in 1..Len(c.inventory) : c.inventory[k] = item_id})

get_inventory_space_remaining(c) == MAX_INVENTORY_SIZE - Len(c.inventory)

\* list.remove: the list without the first occurrence of item_id
list_remove(inventory, item_id) ==
    LET k == CHOOSE k \in 1..Len(inventory) :
                 /\ inventory[k] = item_id
                 /\ \A j \in 1..(k - 1) : inventory[j] # item_id
    IN  SubSeq(inventory, 1, k - 1) \o SubSeq(inventory, k + 1, Len(inventory))

DigitValue(ch) ==
    CASE ch = "0" -> 0 [] ch = "1" -> 1 [] ch = "2" -> 2 [] ch = "3" -> 3
      [] ch = "4" -> 4 [] ch = "5" -> 5 [] ch = "6" -> 6 [] ch = "7" -> 7
      [] ch = "8" -> 8 [] ch = "9" -> 9

RECURSIVE Digits(_)
\* the number a sequence of decimal digits denotes
Digits(chars) ==
    IF chars = <<>> THEN 0
    ELSE 10 * Digits(SubSeq(chars, 1, Len(chars) - 1)) + DigitValue(chars[Len(chars)])

\* int(text) for a well-formed literal with an optional sign
int(chars) ==
    IF chars[1] = "-" THEN 0 - Digits(Tail(chars))
    ELSE IF chars[1] = "+" THEN Digits(Tail(chars))
    ELSE Digits(chars)

\* effect_string.split(":", 1), then int() of the second part
parse_item_effect(effect_string) ==
    LET k == CHOOSE k \in 1..Len(effect_string) :
                 /\ effect_string[k] = ":"
                 /\ \A j \in 1..(k - 1) : effect_string[j] # ":"
    IN  [stat  |-> effect_string[1],
         value |-> int(SubSeq(effect_string, k + 1, Len(effect_string)))]

apply_stat_effect(c, stat_name, value) ==
    LET c0 == IF stat_name \in DOMAIN c THEN c ELSE c @@ (stat_name :> 0)
        c1 == [c0 EXCEPT ![stat_name] = @ + value]
    IN  IF stat_name = "health" /\ c1.health > c1.max_health
        THEN [c1 EXCEPT !.health = c1.max_health]
        ELSE c1

\* item_data is a single item record: isinstance(item_data, dict) and
\* "type" in item_data
is_item_record(item_data) == "type" \in DOMAIN item_data

_resolve_item_info(item_id, item_data) ==
    IF is_item_record(item_data) THEN item_data ELSE item_data[item_id]

\* item_id in item_data and isinstance(item_data[item_id], dict): the values
\* of a single item record are strings and numbers, those of the table dicts
has_record_of(item_data, item_id) ==
    item_id \in DOMAIN item_data /\ ~is_item_record(item_data)

\* parse_item_effect of the record, applied with the given sign
apply_item_effect(c, info, sign) ==
    IF "effect" \in DOMAIN info
    THEN apply_stat_effect(c, parse_item_effect(info.effect).stat,
                           sign * parse_item_effect(info.effect).value)
    ELSE c

\* an add that refuses only an inventory beyond its size
add_item_past_full(c, item_id) ==
    IF Len(c.inventory) > MAX_INVENTORY_SIZE
    THEN Raise(c, "InventoryFullError")
    ELSE Ok([c EXCEPT !.inventory = Append(@, item_id)], TRUE)

add_item_to_inventory(c, item_id) ==
    IF Len(c.inventory) >= MAX_INVENTORY_SIZE
    THEN Raise(c, "InventoryFullError")
    ELSE Ok([c EXCEPT !.inventory = Append(@, item_id)], TRUE)

\* the sequence without the last occurrence of item_id
list_remove_last(inventory, item_id) ==
    LET k == CHOOSE i \in 1..Len(inventory) :
                 /\ inventory[i] = item_id
                 /\ \A j \in (i + 1)..Len(inventory) : inventory[j] # item_id
    IN  SubSeq(inventory, 1, k - 1) \o SubSeq(inventory, k + 1, Len(inventory))

\* a removal of the last occurrence of the item
remove_last_occurrence(c, item_id) ==
    IF ~has_item(c, item_id)
    THEN Raise(c, "ItemNotFoundError")
    ELSE Ok([c EXCEPT !.inventory = list_remove_last(@, item_id)], TRUE)

remove_item_from_inventory(c, item_id) ==
    IF ~has_item(c, item_id)
    THEN Raise(c, "ItemNotFoundError")
    ELSE Ok([c EXCEPT !.inventory = list_remove(@, item_id)], TRUE)

\* a use that leaves health above max_health
use_item_uncapped(c, item_id, item_data) ==
    IF ~has_item(c, item_id)
    THEN Raise(c, "ItemNotFoundError")
    ELSE LET info == _resolve_item_info(item_id, item_data)
         IN  IF info.type # "consumable"
             THEN Raise(c, "InvalidItemTypeError")
             ELSE LET e  == parse_item_effect(info.effect)
                      c1 == [c EXCEPT ![e.stat] = @ + e.value]
                  IN  Ok([c1 EXCEPT !.inventory = list_remove(@, item_id)], None)

use_item(c, item_id, item_data) ==
    IF ~has_item(c, item_id)
    THEN Raise(c, "ItemNotFoundError")
    ELSE LET info == _resolve_item_info(item_id, item_data)
         IN  IF info.type # "consumable"
             THEN Raise(c, "InvalidItemTypeError")
             ELSE LET c1 == apply_item_effect(c, info, 1)
                  IN  Ok([c1 EXCEPT !.inventory = list_remove(@, item_id)], None)

\* the part of equip_weapon and equip_armor that takes the old item out of
\* the slot: its bonus is reversed only when item_data holds its record
unequip_old(c, slot, item_data) ==
    LET old_id == c[slot]
    IN  IF old_id # None
        THEN LET c1 == IF has_record_of(item_data, old_id)
                       THEN apply_item_effect(c, item_data[old_id], -1)
                       ELSE c
             IN  [c1 EXCEPT !.inventory = Append(@, old_id)]
        ELSE c

\* equip that does not look at the type of the item
equip_any_type(c, slot, type, item_id, item_data) ==
    IF ~has_item(c, item_id)
    THEN Raise(c, "ItemNotFoundError")
    ELSE LET info == _resolve_item_info(item_id, item_data)
             c1   == unequip_old(c, slot, item_data)
             c2   == apply_item_effect(c1, info, 1)
         IN  Ok([c2 EXCEPT ![slot] = item_id,
                           !.inventory = list_remove(@, item_id)],
                None)

\* equip that leaves the equipped copy in the inventory
equip_keeping_copy(c, slot, type, item_id, item_data) ==
    IF ~has_item(c, item_id)
    THEN Raise(c, "ItemNotFoundError")
    ELSE LET info == _resolve_item_info(item_id, item_data)
         IN  IF info.type # type
             THEN Raise(c, "InvalidItemTypeError")
             ELSE LET c1 == unequip_old(c, slot, item_data)
                      c2 == apply_item_effect(c1, info, 1)
                  IN  Ok([c2 EXCEPT ![slot] = item_id], None)

\* equip_weapon and equip_armor, which differ in the slot and the type
equip(c, slot, type, item_id, item_data) ==
    IF ~has_item(c, item_id)
    THEN Raise(c, "ItemNotFoundError")
    ELSE LET info == _resolve_item_info(item_id, item_data)
         IN  IF info.type # type
             THEN Raise(c, "InvalidItemTypeError")
             ELSE LET c1 == unequip_old(c, slot, item_data)
                      c2 == apply_item_effect(c1, info, 1)
                  IN  Ok([c2 EXCEPT ![slot] = item_id,
                                    !.inventory = list_remove(@, item_id)],
                         None)

equip_weapon(c, item_id, item_data) ==
    equip(c, "equipped_weapon", "weapon", item_id, item_data)

equip_armor(c, item_id, item_data) ==
    equip(c, "equipped_armor", "armor", item_id, item_data)

\* unequip that leaves the bonus of the item in the stat
unequip_keeping_bonus(c, slot, item_data) ==
    LET equipped == c[slot]
    IN  IF equipped = None
        THEN Ok(c, None)
        ELSE IF get_inventory_space_remaining(c) <= 0
        THEN Raise(c, "InventoryFullError")
        ELSE Ok([c EXCEPT !.inventory = Append(@, equipped),
                          ![slot] = None],
                equipped)

\* unequip that does not look at the space left in the inventory
unequip_into_full(c, slot, item_data) ==
    LET equipped == c[slot]
    IN  IF equipped = None
        THEN Ok(c, None)
        ELSE LET info == IF has_record_of(item_data, equipped)
                         THEN item_data[equipped]
                         ELSE item_data
                 c1   == apply_item_effect(c, info, -1)
             IN  Ok([c1 EXCEPT !.inventory = Append(@, equipped),
                               ![slot] = None],
                    equipped)

\* unequip that puts the item at the front of the inventory
unequip_to_front(c, slot, item_data) ==
    LET equipped == c[slot]
    IN  IF equipped = None
        THEN Ok(c, None)
        ELSE IF get_inventory_space_remaining(c) <= 0
        THEN Raise(c, "InventoryFullError")
        ELSE LET info == IF has_record_of(item_data, equipped)
                         THEN item_data[equipped]
                         ELSE item_data
                 c1   == apply_item_effect(c, info, -1)
             IN  Ok([c1 EXCEPT !.inventory = <<equipped>> \o @,
                               ![slot] = None],
                    equipped)

\* unequip_weapon and unequip_armor, which differ in the slot
unequip(c, slot, item_data) ==
    LET equipped == c[slot]
    IN  IF equipped = None
        THEN Ok(c, None)
        ELSE IF get_inventory_space_remaining(c) <= 0
        THEN Raise(c, "InventoryFullError")
        ELSE LET info == IF has_record_of(item_data, equipped)
                         THEN item_data[equipped]
                         ELSE item_data
                 c1   == apply_item_effect(c, info, -1)
             IN  Ok([c1 EXCEPT !.inventory = Append(@, equipped),
                               ![slot] = None],
                    equipped)

unequip_weapon(c, item_data) == unequip(c, "equipped_weapon", item_data)

unequip_armor(c, item_data) == unequip(c, "equipped_armor", item_data)

\* a purchase that looks at the room in the inventory before the gold
purchase_item_space_first(c, item_id, item_data) ==
    LET cost == _resolve_item_info(item_id, item_data).cost
    IN  IF Len(c.inventory) >= MAX_INVENTORY_SIZE
        THEN Raise(c, "InventoryFullError")
        ELSE IF c.gold < cost
        THEN Raise(c, "InsufficientResourcesError")
        ELSE Ok([c EXCEPT !.gold = @ - cost,
                          !.inventory = Append(@, item_id)], TRUE)

purchase_item(c, item_id, item_data) ==
    LET cost == _resolve_item_info(item_id, item_data).cost
    IN  IF c.gold < cost
        THEN Raise(c, "InsufficientResourcesError")
        ELSE IF Len(c.inventory) >= MAX_INVENTORY_SIZE
        THEN Raise(c, "InventoryFullError")
        ELSE Ok([c EXCEPT !.gold = @ - cost,
                          !.inventory = Append(@, item_id)], TRUE)

\* a sale at the full cost of the item
sell_item_at_cost(c, item_id, item_data) ==
    IF ~has_item(c, item_id)
    THEN Raise(c, "ItemNotFoundError")
    ELSE LET gold_gained == _resolve_item_info(item_id, item_data).cost
         IN  Ok([c EXCEPT !.inventory = list_remove(@, item_id),
                          !.gold = @ + gold_gained], gold_gained)

\* a sale at half the cost rounded up
sell_item_rounding_up(c, item_id, item_data) ==
    IF ~has_item(c, item_id)
    THEN Raise(c, "ItemNotFoundError")
    ELSE LET gold_gained ==
                 (_resolve_item_info(item_id, item_data).cost + 1) \div 2
         IN  Ok([c EXCEPT !.inventory = list_remove(@, item_id),
                          !.gold = @ + gold_gained], gold_gained)

sell_item(c, item_id, item_data) ==
    IF ~has_item(c, item_id)
    THEN Raise(c, "ItemNotFoundError")
    ELSE LET gold_gained == _resolve_item_info(item_id, item_data).cost \div 2
         IN  Ok([c EXCEPT !.inventory = list_remove(@, item_id),
                          !.gold = @ + gold_gained], gold_gained)

\* ------------------------------------------------------------------------
\* combat_system.py: enemies
\* ------------------------------------------------------------------------

templates ==
    [goblin |-> [type |-> "goblin", health |-> 50, max_health |-> 50,
                 strength |-> 8, magic |-> 2, xp_reward |-> 25,
                 gold_reward |-> 10],
     orc    |-> [type |-> "orc", health |-> 80, max_health |-> 80,
                 strength |-> 12, magic |-> 5, xp_reward |-> 50,
                 gold_reward |-> 25],
     dragon |-> [type |-> "dragon", health |-> 200, max_health |-> 200,
                 strength |-> 25, magic |-> 15, xp_reward |-> 200,
                 gold_reward |-> 100]]

create_enemy(enemy_type) == templates[enemy_type]

\* a banding that sends level 6 to the orc
get_enemy_banded_late(character_level) ==
    IF character_level <= 2 THEN create_enemy("goblin")
    ELSE IF character_level <= 6 THEN create_enemy("orc")
    ELSE create_enemy("dragon")

get_random_enemy_for_level(character_level) ==
    IF character_level <= 2 THEN create_enemy("goblin")
    ELSE IF character_level <= 5 THEN create_enemy("orc")
    ELSE create_enemy("dragon")

\* rewards with the two amounts exchanged
get_exchanged_rewards(e) == [xp |-> e.gold_reward, gold |-> e.xp_reward]

get_victory_rewards(e) == [xp |-> e.xp_reward, gold |-> e.gold_reward]

\* ------------------------------------------------------------------------
\* combat_system.py: SimpleBattle.  The methods work on the battle object b,
\* a record of the five fields below, and return it as they leave it.
\* ------------------------------------------------------------------------

Battle ==
    [character     |-> character,
     enemy         |-> enemy,
     combat_active |-> combat_active,
     turn_counter  |-> turn_counter,
     battle_result |-> battle_result]

Result(winner, xp, gold) ==
    <<[winner |-> winner, xp_gained |-> xp, gold_gained |-> gold]>>

calculate_damage(attacker, defender) ==
    LET damage_amount == attacker.strength - (defender.strength \div 4)
    IN  IF damage_amount < 1 THEN 1 ELSE damage_amount

\* the value check_battle_end returns
check_battle_end(b) ==
    IF b.character.health <= 0 THEN "enemy"
    ELSE IF b.enemy.health <= 0 THEN "player"
    ELSE None

\* the battle as check_battle_end leaves it
after_check_battle_end(b) ==
    IF check_battle_end(b) # None THEN [b EXCEPT !.combat_active = FALSE]
    ELSE b

\* target is "enemy" or "character"
apply_damage(b, target, damage) ==
    LET h  == b[target].health - damage
        b1 == [b EXCEPT ![target].health = IF h < 0 THEN 0 ELSE h]
    IN  after_check_battle_end(b1)

\* the damage player_turn passes to apply_damage for choice "1"
player_attack_damage(b) == b.character.strength

\* the damage enemy_turn passes to apply_damage
enemy_attack_damage(b) == b.enemy.strength

hit(e, damage) ==
    [e EXCEPT !.health = IF @ - damage < 0 THEN 0 ELSE @ - damage]

warrior_power_strike(c, e) ==
    [character |-> c, enemy |-> hit(e, c.strength * 2)]

mage_fireball(c, e) ==
    [character |-> c, enemy |-> hit(e, c.magic * 2)]

\* a strike that is never critical
rogue_plain_strike(c, e, crit) ==
    [character |-> c, enemy |-> hit(e, c.strength)]

rogue_critical_strike(c, e, crit) ==
    [character |-> c,
     enemy     |-> hit(e, IF crit THEN c.strength * 3 ELSE c.strength)]

cleric_heal(c, e) ==
    [character |-> [c EXCEPT !.health = Min(c.health + 30, c.max_health)],
     enemy     |-> e]

use_special_ability(c, e, draw) ==
    IF c.class = "Warrior" THEN warrior_power_strike(c, e)
    ELSE IF c.class = "Mage" THEN mage_fireball(c, e)
    ELSE IF c.class = "Rogue" THEN rogue_critical_strike(c, e, draw)
    ELSE IF c.class = "Cleric" THEN cleric_heal(c, e)
    ELSE [character |-> c, enemy |-> e]

\* attempt_escape past its guard: success is the random draw
escape(b, success) ==
    IF success THEN [b EXCEPT !.combat_active = FALSE] ELSE b

\* a player_turn that does not count the turn of a killing blow
player_turn_end_uncounted(b) ==
    LET winner == check_battle_end(b)
        b1     == after_check_battle_end(b)
    IN  IF winner = "player"
        THEN [b1 EXCEPT !.battle_result =
                  Result("player", get_victory_rewards(b1.enemy).xp,
                         get_victory_rewards(b1.enemy).gold)]
        ELSE [b1 EXCEPT !.turn_counter = @ + 1]

\* a player_turn that pays the rewards of a victory out to the character
player_turn_end_awarding(b) ==
    LET winner == check_battle_end(b)
        b1     == after_check_battle_end(b)
        xp     == get_victory_rewards(b1.enemy).xp
        gold   == get_victory_rewards(b1.enemy).gold
        b2     == IF winner = "player"
                  THEN [b1 EXCEPT !.battle_result = Result("player", xp, gold),
                                  !.character.experience = @ + xp,
                                  !.character.gold = @ + gold]
                  ELSE b1
    IN  [b2 EXCEPT !.turn_counter = @ + 1]

\* what player_turn does with the value of check_battle_end
player_turn_end(b) ==
    LET winner == check_battle_end(b)
        b1     == after_check_battle_end(b)
        b2     == IF winner = "player"
                  THEN [b1 EXCEPT !.battle_result =
                            Result("player", get_victory_rewards(b1.enemy).xp,
                                   get_victory_rewards(b1.enemy).gold)]
                  ELSE b1
    IN  [b2 EXCEPT !.turn_counter = @ + 1]

\* player_turn past its guard
player_turn_body(b, choice, draw) ==
    IF choice = "1"
    THEN player_turn_end(apply_damage(b, "enemy", player_attack_damage(b)))
    ELSE IF choice = "2"
    THEN LET r == use_special_ability(b.character, b.enemy, draw)
         IN  player_turn_end([b EXCEPT !.character = r.character,
                                       !.enemy = r.enemy])
    ELSE IF choice = "3"
    THEN IF draw
         THEN [escape(b, TRUE) EXCEPT !.battle_result = Result("none", 0, 0)]
         ELSE player_turn_end(escape(b, FALSE))
    ELSE player_turn_end(b)

\* enemy_turn past its guard
enemy_turn_body(b) ==
    LET b1     == apply_damage(b, "character", enemy_attack_damage(b))
        winner == check_battle_end(b1)
        b2     == after_check_battle_end(b1)
        b3     == IF winner = "enemy"
                  THEN [b2 EXCEPT !.battle_result = Result("enemy", 0, 0)]
                  ELSE b2
    IN  [b3 EXCEPT !.turn_counter = @ + 1]

\* a guard that refuses a turn only before the first start_battle
raises_before_start(b) == ~b.combat_active /\ b.battle_result = <<>>

\* the guard the three turn operations start with
raises_CombatNotActiveError(b) == ~b.combat_active

\* a guard that lets a character at health 0 through
raises_below_zero(c) == c.health < 0

\* the guard start_battle starts with
raises_CharacterDeadError(c) == is_character_dead(c)

\* start_battle past its guard
start_battle_body(b) ==
    [b EXCEPT !.combat_active = TRUE,
              !.turn_counter = 1,
              !.battle_result = Result(None, 0, 0)]

\* the battle object written back to the variables
Store(b) ==
    /\ character' = b.character
    /\ enemy' = b.enemy
    /\ combat_active' = b.combat_active
    /\ turn_counter' = b.turn_counter
    /\ battle_result' = b.battle_result

\* the choices typed at the prompt of player_turn; "4" is an invalid one
Choices == {"1", "2", "3", "4"}

\* whether player_turn reads the random source for this choice
UsesDraw(c, choice) ==
    \/ choice = "3"
    \/ choice = "2" /\ c.class = "Rogue"

\* main.explore: SimpleBattle(character, get_random_enemy_for_level(level))
new_battle ==
    /\ ~combat_active
    /\ enemy' = get_random_enemy_for_level(character.level)
    /\ combat_active' = FALSE
    /\ turn_counter' = 0
    /\ battle_result' = <<>>
    /\ last' = Call("new_battle", None, 0, FALSE, "ok", None)
    /\ UNCHANGED character

start_battle ==
    IF raises_CharacterDeadError(character)
    THEN /\ last' = Call("start_battle", None, 0, FALSE, "CharacterDeadError", None)
         /\ UNCHANGED <<character, enemy, combat_active, turn_counter, battle_result>>
    ELSE /\ Store(start_battle_body(Battle))
         /\ last' = Call("start_battle", None, 0, FALSE, "ok", None)

\* turns are taken only while turn_counter is below max_turns
player_turn(max_turns) ==
    \E choice \in Choices, draw \in BOOLEAN :
        /\ draw => UsesDraw(character, choice)
        /\ IF raises_CombatNotActiveError(Battle)
           THEN /\ last' = Call("player_turn", None, 0, FALSE,
                                "CombatNotActiveError", None)
                /\ UNCHANGED <<character, enemy, combat_active, turn_counter,
                               battle_result>>
           ELSE /\ turn_counter < max_turns
                /\ Store(player_turn_body(Battle, choice, draw))
                /\ last' = Call("player_turn", choice, 0, draw, "ok", None)

enemy_turn(max_turns) ==
    IF raises_CombatNotActiveError(Battle)
    THEN /\ last' = Call("enemy_turn", None, 0, FALSE, "CombatNotActiveError", None)
         /\ UNCHANGED <<character, enemy, combat_active, turn_counter, battle_result>>
    ELSE /\ turn_counter < max_turns
         /\ Store(enemy_turn_body(Battle))
         /\ last' = Call("enemy_turn", None, 0, FALSE, "ok", None)

\* attempt_escape called on the battle object directly
attempt_escape ==
    \E draw \in BOOLEAN :
        IF raises_CombatNotActiveError(Battle)
        THEN /\ ~draw
             /\ last' = Call("attempt_escape", None, 0, FALSE,
                             "CombatNotActiveError", None)
             /\ UNCHANGED <<character, enemy, combat_active, turn_counter,
                            battle_result>>
        ELSE /\ Store(escape(Battle, draw))
             /\ last' = Call("attempt_escape", None, 0, draw, "ok", draw)

\* ------------------------------------------------------------------------
\* The battle alone: a freshly created character of any class meets an
\* enemy of any type.
\* ------------------------------------------------------------------------

InitBattle ==
    \E character_class \in Classes, enemy_type \in EnemyTypes :
        /\ character = create_character(character_class)
        /\ enemy = create_enemy(enemy_type)
        /\ combat_active = FALSE
        /\ turn_counter = 0
        /\ battle_result = <<>>
        /\ last = Call("create_character", character_class, 0, FALSE, "ok", None)

NextBattle ==
    \/ start_battle
    \/ player_turn(MaxTurns)
    \/ enemy_turn(MaxTurns)
    \/ attempt_escape

SpecBattle == InitBattle /\ [][NextBattle]_vars

\* ------------------------------------------------------------------------
\* The inventory and the shop: the operations of inventory_system.py on a
\* character who is not in a battle.
\* ------------------------------------------------------------------------

\* the item data a caller passes for item_id: the whole table, or the
\* record of the item (main.view_inventory, main.shop)
ItemData(item_id) == {all_items, all_items[item_id]}

\* the item data a caller passes to unequip the item in a slot
SlotData(c, slot) ==
    IF c[slot] = None THEN {all_items} ELSE ItemData(c[slot])

\* the stats stay within the bounds of the model
WithinBounds(c) ==
    /\ c.level <= MaxLevel
    /\ c.strength <=
          valid_classes[c.class].strength + 2 * (c.level - 1) + MaxStrengthBonus
    /\ c.max_health <=
          valid_classes[c.class].health + 10 * (c.level - 1) + MaxHealthBonus
    /\ c.gold <= MaxGold

\* one more item may be acquired
MayAcquire(c) == Len(c.inventory) - count_item(c, Filler) < MaxCarried

\* the result r of a call written back to the variables
Return(op, amount, r) ==
    /\ WithinBounds(r.character)
    /\ character' = r.character
    /\ last' = Call(op, None, amount, FALSE, r.outcome, r.ret)
    /\ UNCHANGED <<enemy, combat_active, turn_counter, battle_result>>

do_add_item_to_inventory(ids) ==
    \E item_id \in ids :
        /\ MayAcquire(character)
        /\ Return("add_item_to_inventory", 0,
                  add_item_to_inventory(character, item_id))

do_remove_item_from_inventory(ids) ==
    \E item_id \in ids :
        Return("remove_item_from_inventory", 0,
               remove_item_from_inventory(character, item_id))

do_use_item(ids) ==
    \E item_id \in ids : \E item_data \in ItemData(item_id) :
        Return("use_item", 0, use_item(character, item_id, item_data))

do_equip_weapon(ids) ==
    \E item_id \in ids : \E item_data \in ItemData(item_id) :
        Return("equip_weapon", 0,
               equip_weapon(character, item_id, item_data))

do_equip_armor(ids) ==
    \E item_id \in ids : \E item_data \in ItemData(item_id) :
        Return("equip_armor", 0,
               equip_armor(character, item_id, item_data))

do_unequip_weapon ==
    \E item_data \in SlotData(character, "equipped_weapon") :
        Return("unequip_weapon", 0,
               unequip_weapon(character, item_data))

do_unequip_armor ==
    \E item_data \in SlotData(character, "equipped_armor") :
        Return("unequip_armor", 0,
               unequip_armor(character, item_data))

\* purchases are tried only if they leave at least min_gold
do_purchase_item(ids, min_gold) ==
    \E item_id \in ids : \E item_data \in ItemData(item_id) :
        /\ MayAcquire(character)
        /\ purchase_item(character, item_id, item_data).character.gold >= min_gold
        /\ Return("purchase_item", 0,
                  purchase_item(character, item_id, item_data))

do_sell_item(ids) ==
    \E item_id \in ids : \E item_data \in ItemData(item_id) :
        Return("sell_item", 0, sell_item(character, item_id, item_data))

\* the inventory of a character who has added the filler n times
Filled(n) == [k \in 1..n |-> Filler]

InitInventory ==
    \E n \in {0, MAX_INVENTORY_SIZE - 1} :
        /\ character = [create_character("Warrior") EXCEPT !.inventory = Filled(n)]
        /\ enemy = get_random_enemy_for_level(1)
        /\ combat_active = FALSE
        /\ turn_counter = 0
        /\ battle_result = <<>>
        /\ last = Call("add_item_to_inventory", None, 0, FALSE, "ok", TRUE)

\* the items the shop trades in under SpecInventory
Traded == {"potion"}

NextInventory ==
    \/ do_add_item_to_inventory(Items)
    \/ do_remove_item_from_inventory(Items)
    \/ do_use_item(Items)
    \/ do_equip_weapon(Items)
    \/ do_equip_armor(Items)
    \/ do_unequip_weapon
    \/ do_unequip_armor
    \/ do_purchase_item(Traded, MaxGold - MaxSpend)
    \/ do_sell_item(Traded)

SpecInventory == InitInventory /\ [][NextInventory]_vars

\* ------------------------------------------------------------------------
\* The whole game: a freshly created character explores, fights the enemy of
\* its level, and between battles heals, gains experience, is revived and
\* handles items.
\* ------------------------------------------------------------------------

do_heal_character(amounts) ==
    \E amount \in amounts :
        Return("heal_character", amount, heal_character(character, amount))

do_gain_experience(amounts) ==
    \E xp_amount \in amounts :
        Return("gain_experience", xp_amount,
               gain_experience(character, xp_amount))

do_revive_character ==
    Return("revive_character", 0, revive_character(character))

\* the items handled under Spec
Handled == {"potion", "armor"}

\* the classes played under Spec
Played == {"Warrior", "Cleric"}

Init ==
    \E character_class \in Played :
        /\ character = create_character(character_class)
        /\ enemy = get_random_enemy_for_level(1)
        /\ combat_active = FALSE
        /\ turn_counter = 0
        /\ battle_result = <<>>
        /\ last = Call("create_character", character_class, 0, FALSE, "ok", None)

\* no battle has been started on the current battle object: the game
\* handles the character between battles, each of them a new SimpleBattle
Idle == battle_result = <<>>

Next ==
    \/ new_battle
    \/ start_battle
    \/ player_turn(MaxRounds)
    \/ enemy_turn(MaxRounds)
    \/ Idle /\ do_heal_character({-5, 30})
    \/ Idle /\ do_gain_experience({100})
    \/ Idle /\ do_revive_character
    \/ Idle /\ do_add_item_to_inventory(Handled)
    \/ Idle /\ do_use_item(Handled)
    \/ Idle /\ do_equip_weapon(Handled)
    \/ Idle /\ do_equip_armor(Handled)
    \/ Idle /\ do_unequip_weapon
    \/ Idle /\ do_unequip_armor

Spec == Init /\ [][Next]_vars

\* ------------------------------------------------------------------------
\* Progression: a freshly created character gains experience, is hurt by a
\* dragon, is healed and revived, and may wear the charm.
\* ------------------------------------------------------------------------

\* the result r of a call written back to the variables
Answer(op, amount, r) ==
    /\ r.character.level <= MaxProgressLevel
    /\ character' = r.character
    /\ last' = Call(op, None, amount, FALSE, r.outcome, r.ret)
    /\ UNCHANGED <<enemy, combat_active, turn_counter, battle_result>>

call_gain_experience(amounts) ==
    \E xp_amount \in amounts :
        Answer("gain_experience", xp_amount,
               gain_experience(character, xp_amount))

call_heal_character(amounts) ==
    \E amount \in amounts :
        Answer("heal_character", amount, heal_character(character, amount))

call_revive_character ==
    Answer("revive_character", 0, revive_character(character))

InitProgress ==
    \E character_class \in Played :
        /\ character = create_character(character_class)
        /\ enemy = create_enemy("dragon")
        /\ combat_active = FALSE
        /\ turn_counter = 0
        /\ battle_result = <<>>
        /\ last = Call("create_character", character_class, 0, FALSE, "ok", None)

\* the experience granted and the health restored under SpecProgress
Grants == {0, 50, 250}

Cures == {-5, 30}

NextProgress ==
    \/ call_gain_experience(Grants)
    \/ call_heal_character(Cures)
    \/ call_revive_character
    \/ start_battle
    \/ enemy_turn(MaxRounds)
    \/ do_add_item_to_inventory({Charm})
    \/ do_equip_armor({Charm})

SpecProgress == InitProgress /\ [][NextProgress]_vars

\* ------------------------------------------------------------------------
\* The shop: a character buys and sells every item with the gold it has,
\* into an empty or a nearly full inventory, and may equip a weapon.
\* ------------------------------------------------------------------------

NextShop ==
    \/ do_purchase_item(Items, 0)
    \/ do_sell_item(Items)
    \/ do_equip_weapon(Items)

SpecShop == InitInventory /\ [][NextShop]_vars

\* ------------------------------------------------------------------------
\* Claims about the character, under Spec and SpecInventory
\* ------------------------------------------------------------------------

\* C1: from a freshly created character, after any sequence of combat turns,
\* heal_character, gain_experience, revive_character, use_item, equip and
\* unequip calls, 0 <= health <= max_health.
C1_HealthWithinBounds ==
    0 <= character.health /\ character.health <= character.max_health

\* C2: after any sequence of add, remove, use, equip, unequip, purchase and
\* sell calls, successful or failing, from an empty inventory,
\* len(inventory) <= 20.
C2_InventoryBounded == Len(character.inventory) <= MAX_INVENTORY_SIZE

\* a call was refused on a full inventory while a weapon fills the slot
C2_Witness ==
    /\ Len(character.inventory) = MAX_INVENTORY_SIZE
    /\ last.outcome = "InventoryFullError"
    /\ character.equipped_weapon # None

EquippedNotCarried(c) ==
    /\ c.equipped_weapon # None => ~has_item(c, c.equipped_weapon)
    /\ c.equipped_armor # None => ~has_item(c, c.equipped_armor)

\* C3 as stated: the ids in equipped_weapon and equipped_armor do not occur
\* in the inventory, duplicates being allowed in the inventory.
C3_EquippedNotInInventory == EquippedNotCarried(character)

Succeeded(ops) == last.op \in ops /\ last.outcome = "ok"

\* the step acquires a copy of an id that is equipped, or equips an id of
\* which the inventory holds two or more copies
C3_SecondCopy ==
    \/ /\ Succeeded({"add_item_to_inventory", "purchase_item"})'
       /\ character'.inventory[Len(character'.inventory)]
             \in {character.equipped_weapon, character.equipped_armor}
    \/ /\ Succeeded({"equip_weapon"})'
       /\ count_item(character, character'.equipped_weapon) >= 2
    \/ /\ Succeeded({"equip_armor"})'
       /\ count_item(character, character'.equipped_armor) >= 2

\* C3 as amended: equipping takes exactly one copy of the item out of the
\* inventory.  The equipped ids stay absent from the inventory through every
\* call except one that adds or buys a copy of an equipped id and one that
\* equips an id the inventory holds two or more copies of: the other copies
\* stay in the inventory.
C3_EquippedLeavesInventory ==
    [][(EquippedNotCarried(character) /\ ~C3_SecondCopy)
           => EquippedNotCarried(character')]_vars

\* both slots are filled, a weapon was equipped over another, and neither
\* equipped id is in the inventory
C3_Witness ==
    /\ Succeeded({"equip_weapon"})
    /\ character.equipped_weapon = "axe"
    /\ character.equipped_armor = "armor"
    /\ has_item(character, "sword")
    /\ EquippedNotCarried(character)

\* ------------------------------------------------------------------------
\* Claims about the battle, under SpecBattle
\* ------------------------------------------------------------------------

BattleFields == <<character, enemy, combat_active, turn_counter, battle_result>>

PlayerAttacked == last.op = "player_turn" /\ last.outcome = "ok" /\ last.arg = "1"

EnemyAttacked == last.op = "enemy_turn" /\ last.outcome = "ok"

AbilityUsed == last.op = "player_turn" /\ last.outcome = "ok" /\ last.arg = "2"

\* C4: every basic attack, the player's and the enemy's, lowers the
\* defender's health by exactly max(1, attacker.strength -
\* defender.strength // 4), floored at 0.
C4_BasicAttackFormula ==
    [][/\ PlayerAttacked' =>
            enemy'.health = Max(0, enemy.health - calculate_damage(character, enemy))
       /\ EnemyAttacked' =>
            character'.health =
                Max(0, character.health - calculate_damage(enemy, character))]_vars

\* C5: after every health-affecting action (player basic attack, special
\* ability, enemy attack): enemy health <= 0 means Ended with winner
\* "player"; character health <= 0 means Ended with winner "enemy";
\* otherwise the battle is Active with no winner.
C5_EndCheckedAfterEveryAction ==
    (PlayerAttacked \/ AbilityUsed \/ EnemyAttacked) =>
        /\ enemy.health <= 0 =>
              ~combat_active /\ battle_result[1].winner = "player"
        /\ character.health <= 0 =>
              ~combat_active /\ battle_result[1].winner = "enemy"
        /\ (enemy.health > 0 /\ character.health > 0) =>
              combat_active /\ battle_result[1].winner = None

\* C6: player_turn, enemy_turn and attempt_escape called while the battle
\* is not Active fail with CombatNotActiveError and change neither
\* combatant, nor turn_counter, combat_active or battle_result.
C6_TurnOutsideBattleFails ==
    [][(last'.op \in {"player_turn", "enemy_turn", "attempt_escape"}
            /\ ~combat_active) =>
          /\ last'.outcome = "CombatNotActiveError"
          /\ UNCHANGED BattleFields]_vars

\* a turn operation was refused on a battle that a successful escape ended
C6_Witness ==
    /\ last.op \in {"player_turn", "enemy_turn", "attempt_escape"}
    /\ last.outcome = "CombatNotActiveError"
    /\ battle_result = Result("none", 0, 0)
    /\ turn_counter >= 1

\* C7: start_battle on a character with health <= 0 fails with
\* CharacterDeadError and changes nothing of the battle; with health > 0 it
\* makes the battle Active with turn_counter 1 and a result with no winner
\* and zero rewards.
C7_StartBattle ==
    [][last'.op = "start_battle" =>
          IF character.health <= 0
          THEN /\ last'.outcome = "CharacterDeadError"
               /\ UNCHANGED BattleFields
          ELSE /\ last'.outcome = "ok"
               /\ combat_active'
               /\ turn_counter' = 1
               /\ battle_result' = Result(None, 0, 0)
               /\ UNCHANGED <<character, enemy>>]_vars

\* start_battle was refused for a character the enemy has killed
C7_Witness ==
    /\ last.op = "start_battle"
    /\ last.outcome = "CharacterDeadError"
    /\ character.health = 0
    /\ ~combat_active
    /\ battle_result = Result("enemy", 0, 0)

EscapeTried ==
    /\ last.outcome = "ok"
    /\ \/ last.op = "attempt_escape"
       \/ last.op = "player_turn" /\ last.arg = "3"

\* C8: a successful escape attempt ends the battle and sets battle_result
\* to winner "none" with zero rewards; a failed attempt leaves the battle
\* Active, changes neither combatant's health and consumes the turn (the
\* turn_counter of a player_turn that chose to run advances by 1).
C8_Escape ==
    [][EscapeTried' =>
          IF last'.draw
          THEN ~combat_active' /\ battle_result' = Result("none", 0, 0)
          ELSE /\ combat_active'
               /\ character'.health = character.health
               /\ enemy'.health = enemy.health
               /\ last'.op = "player_turn" =>
                     turn_counter' = turn_counter + 1]_vars

\* C9: winner "player" implies xp_gained = enemy.xp_reward and gold_gained =
\* enemy.gold_reward; winner "enemy", "none" or unset implies both are 0.
C9_Rewards ==
    battle_result # <<>> =>
        /\ battle_result[1].winner = "player" =>
              /\ battle_result[1].xp_gained = enemy.xp_reward
              /\ battle_result[1].gold_gained = enemy.gold_reward
        /\ battle_result[1].winner \in {"enemy", "none", None} =>
              /\ battle_result[1].xp_gained = 0
              /\ battle_result[1].gold_gained = 0

\* the player has beaten the dragon
C9_Witness ==
    /\ battle_result # <<>>
    /\ battle_result[1].winner = "player"
    /\ enemy.type = "dragon"
    /\ battle_result[1].xp_gained = 200
    /\ battle_result[1].gold_gained = 100

CombatOps == {"start_battle", "player_turn", "enemy_turn", "attempt_escape"}

\* C10: no operation of the battle changes the character's experience,
\* gold, level or inventory, the winning turn included.
C10_BattleAwardsNothing ==
    [][last'.op \in CombatOps =>
          /\ character'.experience = character.experience
          /\ character'.gold = character.gold
          /\ character'.level = character.level
          /\ character'.inventory = character.inventory]_vars

\* the turn in which the player has won, the rewards in battle_result only
C10_Witness ==
    /\ last.op = "player_turn" /\ last.outcome = "ok"
    /\ battle_result # <<>>
    /\ battle_result[1].winner = "player"
    /\ battle_result[1].xp_gained > 0
    /\ character.experience = 0
    /\ character.gold = 100

\* ------------------------------------------------------------------------
\* Claims about progression, under SpecProgress (C14 under Spec)
\* ------------------------------------------------------------------------

Gained == last.op = "gain_experience" /\ last.outcome = "ok"

RECURSIVE reference_cascade(_)
\* the cascade C11 refers to: while experience >= level * 100 subtract
\* level * 100, add 1 to level, 10 to max_health, 2 to strength, 2 to magic
\* and set health to max_health
reference_cascade(c) ==
    IF c.experience >= c.level * 100
    THEN LET spent  == [c EXCEPT !.experience = c.experience - c.level * 100]
             raised == [spent EXCEPT !.level = c.level + 1,
                                     !.max_health = c.max_health + 10,
                                     !.strength = c.strength + 2,
                                     !.magic = c.magic + 2]
         IN  reference_cascade([raised EXCEPT !.health = raised.max_health])
    ELSE c

\* C11: for a living character with level >= 1, 0 <= experience <
\* level * 100 and an amount >= 0, gain_experience yields the result of the
\* reference cascade applied after adding the amount; afterwards 0 <=
\* experience < level * 100, and it returns true iff the level increased.
C11_GainIsCascade ==
    [][(/\ Gained'
        /\ character.health > 0 /\ character.level >= 1
        /\ 0 <= character.experience
        /\ character.experience < character.level * 100
        /\ last'.amount >= 0) =>
          /\ character' = reference_cascade(
                  [character EXCEPT !.experience = @ + last'.amount])
          /\ 0 <= character'.experience
          /\ character'.experience < character'.level * 100
          /\ last'.ret = (character'.level > character.level)]_vars

\* one grant has raised the level twice, the character hurt before it
C11_Witness ==
    /\ Gained /\ last.amount = 250 /\ last.ret = TRUE
    /\ character.level = 3
    /\ character.experience = 0
    /\ character.health = character.max_health
    /\ character.max_health = valid_classes[character.class].health + 20

\* C12 as stated: granting 250 XP at level 1 and experience 0 ends at level
\* 3 and experience 50.
C12_Grant250AsStated ==
    [][(Gained' /\ last'.amount = 250
           /\ character.level = 1 /\ character.experience = 0) =>
          (character'.level = 3 /\ character'.experience = 50)]_vars

\* C12 as amended: granting 250 XP at level 1 and experience 0 ends at level
\* 2 and experience 150: 100 is consumed for level 2, and the 150 left are
\* below the 200 that level 3 takes.
C12_Grant250 ==
    [][(Gained' /\ last'.amount = 250
           /\ character.level = 1 /\ character.experience = 0) =>
          (character'.level = 2 /\ character'.experience = 150)]_vars

\* 250 XP were granted to a character at level 1 and experience 0
C12_Witness ==
    /\ Gained /\ last.amount = 250
    /\ character.level = 2
    /\ character.experience = 150

\* C13: gain_experience on a character with health <= 0 fails with
\* CharacterDeadError and changes nothing of the character, for every
\* amount.
C13_DeadGainNothing ==
    [][(last'.op = "gain_experience" /\ character.health <= 0) =>
          /\ last'.outcome = "CharacterDeadError"
          /\ character' = character]_vars

\* a grant that would have raised the level was refused to a dead character
C13_Witness ==
    /\ last.op = "gain_experience"
    /\ last.outcome = "CharacterDeadError"
    /\ last.amount = 250
    /\ character.health = 0
    /\ character.level = 1

\* C14: heal_character with amount >= 0 sets health to min(health + amount,
\* max_health) and returns the amount restored, which is new health minus
\* old health and lies in 0 .. amount; with a negative amount it fails with
\* a validation error and health is unchanged.
C14_Heal ==
    [][last'.op = "heal_character" =>
          IF last'.amount >= 0
          THEN /\ last'.outcome = "ok"
               /\ character'.health =
                     Min(character.health + last'.amount, character.max_health)
               /\ last'.ret = character'.health - character.health
               /\ 0 <= last'.ret /\ last'.ret <= last'.amount
          ELSE /\ last'.outcome = "ValueError"
               /\ character'.health = character.health]_vars

\* C15: revive_character on a character with health > 0 returns false and
\* changes nothing; on one with health <= 0 it sets health to
\* max_health // 2, changes no other field and returns true.
C15_Revive ==
    [][last'.op = "revive_character" =>
          IF character.health > 0
          THEN last'.ret = FALSE /\ character' = character
          ELSE /\ last'.ret = TRUE
               /\ character' =
                     [character EXCEPT !.health = character.max_health \div 2]]_vars

\* a dead character with an odd max_health was revived
C15_Witness ==
    /\ last.op = "revive_character" /\ last.ret = TRUE
    /\ character.max_health % 2 = 1
    /\ character.health = (character.max_health - 1) \div 2

\* ------------------------------------------------------------------------
\* Claims about equipment and the inventory, under SpecInventory
\* ------------------------------------------------------------------------

\* the stat and the delta of the effect of an item
Effect(item_id) == parse_item_effect(all_items[item_id].effect)

\* the stats of c with the delta of the item added n times (n may be -1)
Adjusted(c, item_id, n) ==
    [c EXCEPT ![Effect(item_id).stat] = @ + n * Effect(item_id).value]

\* the step has put a second item into the slot, over the one that was there
Swapped(slot, op) ==
    /\ last'.op = op /\ last'.outcome = "ok"
    /\ character[slot] # None

\* what C16 requires of such a step
SwappedAsClaimed(slot) ==
    LET old == character[slot]
        new == character'[slot]
    IN  /\ has_item(character, new)
        /\ character'.inventory =
               list_remove(Append(character.inventory, old), new)
        /\ Len(character'.inventory) = Len(character.inventory)
        /\ character' =
               [Adjusted(Adjusted(character, old, -1), new, 1)
                   EXCEPT ![slot] = new,
                          !.inventory = character'.inventory]

\* C16: equipping a second weapon while one is equipped returns the
\* previously equipped weapon to the inventory with its bonus fully
\* reversed, puts the new weapon in the slot with its bonus applied and
\* leaves the size of the inventory unchanged; the same holds for armor.
C16_SwapEquipment ==
    [][/\ Swapped("equipped_weapon", "equip_weapon") =>
             SwappedAsClaimed("equipped_weapon")
       /\ Swapped("equipped_armor", "equip_armor") =>
             SwappedAsClaimed("equipped_armor")]_vars

\* the outcome of a call: the character, the exception or "ok", the value
SameResult(r1, r2) ==
    /\ r1.character = r2.character
    /\ r1.outcome = r2.outcome
    /\ r1.ret = r2.ret

\* C17: every inventory operation that takes item data gives the same
\* resulting character and the same outcome whether it is passed the single
\* record of the item or the full mapping from item id to record, also when
\* another item occupies the equipment slot.
C17_ShapeEquivalence ==
    /\ \A item_id \in Items :
          /\ SameResult(use_item(character, item_id, all_items),
                        use_item(character, item_id, all_items[item_id]))
          /\ SameResult(equip_weapon(character, item_id, all_items),
                        equip_weapon(character, item_id, all_items[item_id]))
          /\ SameResult(equip_armor(character, item_id, all_items),
                        equip_armor(character, item_id, all_items[item_id]))
          /\ SameResult(purchase_item(character, item_id, all_items),
                        purchase_item(character, item_id, all_items[item_id]))
          /\ SameResult(sell_item(character, item_id, all_items),
                        sell_item(character, item_id, all_items[item_id]))
    /\ character.equipped_weapon # None =>
          SameResult(unequip_weapon(character, all_items),
                     unequip_weapon(character,
                                    all_items[character.equipped_weapon]))
    /\ character.equipped_armor # None =>
          SameResult(unequip_armor(character, all_items),
                     unequip_armor(character,
                                   all_items[character.equipped_armor]))

\* the outcome C18 requires of equipping item_id as the given type
EquipOutcome(c, item_id, type) ==
    IF ~has_item(c, item_id) THEN "ItemNotFoundError"
    ELSE IF all_items[item_id].type # type THEN "InvalidItemTypeError"
    ELSE "ok"

\* the result r of equipping item_id as the given type is as C18 requires
EquipFailsAsClaimed(r, item_id, type) ==
    /\ r.outcome = EquipOutcome(character, item_id, type)
    /\ r.outcome # "ok" => r.character = character

\* C18: equip_weapon / equip_armor fail with ItemNotFoundError when the
\* item is not in the inventory and with InvalidItemTypeError when its type
\* is not weapon / armor; a failure changes nothing of the character.  It
\* is stated of the result of either call on every item, in every state the
\* inventory operations reach.
C18_EquipFailures ==
    \A item_id \in Items : \A item_data \in ItemData(item_id) :
        /\ EquipFailsAsClaimed(equip_weapon(character, item_id, item_data),
                               item_id, "weapon")
        /\ EquipFailsAsClaimed(equip_armor(character, item_id, item_data),
                               item_id, "armor")

\* a carried potion was refused as armor while a weapon and an armor are
\* equipped
C18_Witness ==
    /\ last.op = "equip_armor"
    /\ last.outcome = "InvalidItemTypeError"
    /\ character.inventory = <<"potion">>
    /\ character.equipped_weapon = "sword"
    /\ character.equipped_armor = "armor"

\* what C19 requires of an unequip step on the slot
UnequippedAsClaimed(slot) ==
    LET equipped == character[slot]
    IN  IF equipped = None
        THEN last'.outcome = "ok" /\ last'.ret = None /\ character' = character
        ELSE IF Len(character.inventory) >= MAX_INVENTORY_SIZE
        THEN last'.outcome = "InventoryFullError" /\ character' = character
        ELSE /\ last'.outcome = "ok" /\ last'.ret = equipped
             /\ character' =
                    [Adjusted(character, equipped, -1)
                        EXCEPT ![slot] = None,
                               !.inventory = Append(@, equipped)]

\* C19: unequip_weapon / unequip_armor return nothing and change nothing
\* when the slot is empty; fail with InventoryFullError, changing nothing,
\* when the slot is occupied and the inventory holds 20 items; otherwise
\* subtract the item's delta from the named stat, append the item to the
\* inventory, clear the slot and return the item id.
C19_Unequip ==
    [][/\ last'.op = "unequip_weapon" => UnequippedAsClaimed("equipped_weapon")
       /\ last'.op = "unequip_armor" => UnequippedAsClaimed("equipped_armor")]_vars

\* the sword was unequipped into the last free place of the inventory
C19_Witness ==
    /\ last.op = "unequip_weapon" /\ last.ret = "sword"
    /\ character.equipped_weapon = None
    /\ Len(character.inventory) = MAX_INVENTORY_SIZE
    /\ character.inventory[MAX_INVENTORY_SIZE] = "sword"
    /\ character.strength = valid_classes[character.class].strength

\* C20: add_item_to_inventory appends the item at the end whenever the
\* inventory holds fewer than 20 items, and fails with InventoryFullError,
\* leaving the inventory unchanged, whenever it holds 20.
C20_AddUpToTwenty ==
    [][last'.op = "add_item_to_inventory" =>
          IF Len(character.inventory) < MAX_INVENTORY_SIZE
          THEN /\ last'.outcome = "ok"
               /\ \E item_id \in Items :
                     character' =
                        [character EXCEPT !.inventory = Append(@, item_id)]
          ELSE /\ last'.outcome = "InventoryFullError"
               /\ character' = character]_vars

\* the 20th item was added and the 21st refused
C20_Witness ==
    /\ last.op = "add_item_to_inventory"
    /\ last.outcome = "InventoryFullError"
    /\ Len(character.inventory) = MAX_INVENTORY_SIZE
    /\ character.inventory[MAX_INVENTORY_SIZE] = "axe"
    /\ character.equipped_weapon = None
    /\ character.equipped_armor = None
    /\ character.gold = 100

\* ------------------------------------------------------------------------
\* Claims about the shop, under SpecShop
\* ------------------------------------------------------------------------

\* C21: purchase_item fails with InsufficientResourcesError when gold <
\* cost, also when the inventory is full, and with InventoryFullError when
\* gold >= cost and the inventory holds 20 items, leaving the character
\* unchanged; otherwise it lowers gold by cost and appends the item.  It is
\* stated of the result of the call on every item, in every state the shop
\* reaches.
C21_Purchase ==
    \A item_id \in Items : \A item_data \in ItemData(item_id) :
        LET r    == purchase_item(character, item_id, item_data)
            cost == all_items[item_id].cost
        IN  IF character.gold < cost
            THEN r.outcome = "InsufficientResourcesError"
                    /\ r.character = character
            ELSE IF Len(character.inventory) >= MAX_INVENTORY_SIZE
            THEN r.outcome = "InventoryFullError" /\ r.character = character
            ELSE /\ r.outcome = "ok"
                 /\ r.character =
                       [character EXCEPT !.gold = @ - cost,
                                         !.inventory = Append(@, item_id)]

\* a purchase was refused for want of gold while the inventory is full
C21_Witness ==
    /\ last.op = "purchase_item"
    /\ last.outcome = "InsufficientResourcesError"
    /\ Len(character.inventory) = MAX_INVENTORY_SIZE
    /\ character.gold < 10

\* C22: a successful purchase_item followed immediately by sell_item of
\* the same item yields gold = original - cost + cost // 2, which is at
\* most the original, and an inventory of the size it had before the
\* purchase.  It is stated at every successful purchase, of the sale of the
\* item just bought.
C22_BuyThenSell ==
    [][Succeeded({"purchase_item"})' =>
          LET item_id == character'.inventory[Len(character'.inventory)]
              cost    == all_items[item_id].cost
          IN  \A item_data \in ItemData(item_id) :
                LET r == sell_item(character', item_id, item_data)
                IN  /\ r.outcome = "ok"
                    /\ r.character.gold = character.gold - cost + cost \div 2
                    /\ r.character.gold <= character.gold
                    /\ Len(r.character.inventory) = Len(character.inventory)]_vars

\* the armor was bought for 31 and sold for 15
C22_Witness ==
    /\ Succeeded({"sell_item"})
    /\ last.ret = 15
    /\ character.gold = 84
    /\ character.inventory = <<>>

\* the other items are carried as often as before
OthersKept(c1, c2, item_id) ==
    \A other \in (Items \cup {Filler}) \ {item_id} :
        count_item(c2, other) = count_item(c1, other)

\* C23: sell_item fails with ItemNotFoundError, changing neither gold nor
\* inventory, when the item is not in the inventory, also when it is only
\* equipped; otherwise it removes exactly one instance of the item, raises
\* gold by cost // 2 and returns that amount.  It is stated of the result
\* of the call on every item, in every state the shop reaches.
C23_Sell ==
    \A item_id \in Items : \A item_data \in ItemData(item_id) :
        LET r    == sell_item(character, item_id, item_data)
            half == all_items[item_id].cost \div 2
        IN  IF ~has_item(character, item_id)
            THEN r.outcome = "ItemNotFoundError" /\ r.character = character
            ELSE /\ r.outcome = "ok" /\ r.ret = half
                 /\ 2 * half <= all_items[item_id].cost
                 /\ all_items[item_id].cost <= 2 * half + 1
                 /\ r.character.gold = character.gold + half
                 /\ count_item(r.character, item_id) =
                       count_item(character, item_id) - 1
                 /\ Len(r.character.inventory) = Len(character.inventory) - 1
                 /\ OthersKept(character, r.character, item_id)

\* the sale of a sword was refused while the only sword is equipped
C23_Witness ==
    /\ last.op = "sell_item"
    /\ last.outcome = "ItemNotFoundError"
    /\ character.equipped_weapon = "sword"
    /\ ~has_item(character, "sword")
    /\ character.inventory # <<>>

\* ------------------------------------------------------------------------
\* Claims about use_item and remove_item_from_inventory, under SpecInventory
\* ------------------------------------------------------------------------

\* the inventory without its entry at index k
WithoutIndex(inventory, k) ==
    [i \in 1..(Len(inventory) - 1) |->
        IF i < k THEN inventory[i] ELSE inventory[i + 1]]

\* the index of the first occurrence of item_id
FirstIndex(inventory, item_id) ==
    CHOOSE k \in 1..Len(inventory) :
        /\ inventory[k] = item_id
        /\ \A j \in 1..(k - 1) : inventory[j] # item_id

\* C24: use_item fails with ItemNotFoundError when the item is not carried
\* and with InvalidItemTypeError when its type is not consumable, changing
\* nothing; otherwise it adds the effect's delta to the named stat, caps
\* health at max_health when the stat is health, and removes exactly one
\* instance of the item.  It is stated of the result of the call on every
\* item, in every state the inventory operations reach.
C24_Use ==
    \A item_id \in Items : \A item_data \in ItemData(item_id) :
        LET r == use_item(character, item_id, item_data)
            e == Effect(item_id)
            raised == character[e.stat] + e.value
        IN  IF ~has_item(character, item_id)
            THEN r.outcome = "ItemNotFoundError" /\ r.character = character
            ELSE IF all_items[item_id].type # "consumable"
            THEN r.outcome = "InvalidItemTypeError" /\ r.character = character
            ELSE /\ r.outcome = "ok"
                 /\ r.character =
                       [character EXCEPT
                          ![e.stat] =
                              IF e.stat = "health"
                              THEN Min(raised, character.max_health)
                              ELSE raised,
                          !.inventory =
                              WithoutIndex(@, FirstIndex(@, item_id))]

\* a potion was used by a character 10 below its raised max_health, and
\* another potion is left
C24_Witness ==
    /\ Succeeded({"use_item"})
    /\ character.equipped_armor = "armor"
    /\ character.max_health = valid_classes[character.class].health + 10
    /\ character.health = character.max_health
    /\ count_item(character, "potion") = 1

\* C25: remove_item_from_inventory fails with ItemNotFoundError, leaving
\* the inventory unchanged, when the item is absent; otherwise it removes
\* only the first occurrence of the item: its count drops by 1 and the
\* order of the remaining entries is preserved.  It is stated of the result
\* of the call on every item, in every state the inventory operations
\* reach.
C25_RemoveFirst ==
    \A item_id \in Items :
        LET r == remove_item_from_inventory(character, item_id)
        IN  IF ~has_item(character, item_id)
            THEN r.outcome = "ItemNotFoundError" /\ r.character = character
            ELSE /\ r.outcome = "ok"
                 /\ r.character =
                       [character EXCEPT
                          !.inventory = WithoutIndex(@, FirstIndex(@, item_id))]
                 /\ count_item(r.character, item_id) =
                       count_item(character, item_id) - 1

\* an item was removed and what is left holds two items around a third
C25_Witness ==
    /\ Succeeded({"remove_item_from_inventory"})
    /\ Len(character.inventory) = 3
    /\ character.inventory[1] = character.inventory[3]
    /\ character.inventory[2] # character.inventory[1]

\* ------------------------------------------------------------------------
\* Claims about the special abilities, under SpecBattle and Spec
\* ------------------------------------------------------------------------

\* C26: the special ability of a Warrior lowers enemy health by
\* strength * 2, of a Mage by magic * 2, and of a Rogue by strength * 3 when
\* the draw is a critical strike and by strength * 1 when it is not, in each
\* case floored at enemy health 0 and leaving the character's health
\* unchanged.
C26_Abilities ==
    [][AbilityUsed' =>
         /\ character.class = "Warrior" =>
               enemy'.health = Max(0, enemy.health - character.strength * 2)
         /\ character.class = "Mage" =>
               enemy'.health = Max(0, enemy.health - character.magic * 2)
         /\ (character.class = "Rogue" /\ last'.draw) =>
               enemy'.health = Max(0, enemy.health - character.strength * 3)
         /\ (character.class = "Rogue" /\ ~last'.draw) =>
               enemy'.health = Max(0, enemy.health - character.strength * 1)
         /\ character.class \in {"Warrior", "Mage", "Rogue"} =>
               character'.health = character.health]_vars

\* a Rogue's critical strike took the last health of the enemy, which had
\* less than strength * 3 left
C26_Witness ==
    /\ AbilityUsed
    /\ character.class = "Rogue"
    /\ last.draw
    /\ enemy.health = 0
    /\ enemy.max_health % (character.strength * 3) # 0
    /\ character.health = character.max_health

\* the character with a class that is none of the four
Classless(c) == [c EXCEPT !.class = "Bard"]

\* C27: the special ability of a Cleric raises the character's own health
\* by 30 capped at max_health, never lowering it, and leaves the enemy
\* unchanged; for a character whose class is none of Warrior, Mage, Rogue,
\* Cleric the ability changes neither combatant.
C27_ClericAbility ==
    [][/\ (AbilityUsed' /\ character.class = "Cleric") =>
            /\ character'.health =
                  Min(character.health + 30, character.max_health)
            /\ character'.health >= character.health
            /\ enemy' = enemy
       /\ \A draw \in BOOLEAN :
            use_special_ability(Classless(character), enemy, draw) =
                [character |-> Classless(character), enemy |-> enemy]]_vars

\* ------------------------------------------------------------------------
\* Encounters: a Warrior gains levels between battles, meets the enemy of
\* its level, and wounds it.
\* ------------------------------------------------------------------------

train(amounts) ==
    \E xp_amount \in amounts :
        LET r == gain_experience(character, xp_amount)
        IN  /\ r.character.level <= MaxEncounterLevel
            /\ character' = r.character
            /\ last' = Call("gain_experience", None, xp_amount, FALSE,
                            r.outcome, r.ret)
            /\ UNCHANGED <<enemy, combat_active, turn_counter, battle_result>>

InitEncounter ==
    /\ character = create_character("Warrior")
    /\ enemy = get_random_enemy_for_level(1)
    /\ combat_active = FALSE
    /\ turn_counter = 0
    /\ battle_result = <<>>
    /\ last = Call("create_character", "Warrior", 0, FALSE, "ok", None)

NextEncounter ==
    \/ new_battle
    \/ start_battle
    \/ player_turn(MaxRounds)
    \/ Idle /\ train({100, 500})

SpecEncounter == InitEncounter /\ [][NextEncounter]_vars

\* ------------------------------------------------------------------------
\* Claims about the enemies, under SpecEncounter
\* ------------------------------------------------------------------------

\* C28: for every character level the generated enemy is a goblin when
\* level <= 2, an orc when 3 <= level <= 5 and a dragon when level >= 6,
\* and the enemy of a new encounter is a fresh instance with health =
\* max_health equal to the template value, whatever damage the enemy of the
\* encounter before had taken.
C28_EnemyForLevel ==
    [][/\ \A level \in 0..(MaxEncounterLevel + 2) :
             LET e == get_random_enemy_for_level(level)
             IN  /\ level <= 2 => e.type = "goblin"
                 /\ (3 <= level /\ level <= 5) => e.type = "orc"
                 /\ level >= 6 => e.type = "dragon"
       /\ last'.op = "new_battle" =>
             /\ character.level <= 2 => enemy'.type = "goblin"
             /\ (3 <= character.level /\ character.level <= 5) =>
                   enemy'.type = "orc"
             /\ character.level >= 6 => enemy'.type = "dragon"
             /\ enemy'.health = enemy'.max_health
             /\ enemy'.health = templates[enemy'.type].health]_vars

\* a character of level 6 meets a dragon at full health
C28_Witness ==
    /\ last.op = "new_battle"
    /\ character.level = 6
    /\ enemy.type = "dragon"
    /\ enemy.health = 200

\* ------------------------------------------------------------------------
\* Claims about the course of a battle, under SpecBattle and SpecDuel
\* ------------------------------------------------------------------------

\* C29: in every reachable battle state, including after start_battle is
\* called again on a battle that already ended, combat_active implies that
\* the character's health and the enemy's health are both above 0.
C29_ActiveMeansAlive ==
    combat_active => (character.health > 0 /\ enemy.health > 0)

\* ------------------------------------------------------------------------
\* The duel: a battle between two sides of any small strength and health is
\* started once, and the player and the enemy alternate basic attacks while
\* it is active.
\* ------------------------------------------------------------------------

\* the turns by which a duel of two sides that lose health at every attack
\* made on them has ended
DuelTurns == 2 * MaxDuelHealth + 1

InitDuel ==
    \E character_strength \in 0..MaxDuelStrength,
       enemy_strength \in 0..MaxDuelStrength,
       character_health \in 1..MaxDuelHealth,
       enemy_health \in 1..MaxDuelHealth :
        /\ character = [create_character("Warrior") EXCEPT
                           !.strength = character_strength,
                           !.health = character_health,
                           !.max_health = character_health]
        /\ enemy = [create_enemy("goblin") EXCEPT
                       !.strength = enemy_strength,
                       !.health = enemy_health,
                       !.max_health = enemy_health]
        /\ combat_active = FALSE
        /\ turn_counter = 0
        /\ battle_result = <<>>
        /\ last = Call("create_character", "Warrior", 0, FALSE, "ok", None)

\* player_turn with the choice "1", taken after start_battle or enemy_turn
basic_attack(max_turns) ==
    /\ combat_active
    /\ last.op # "player_turn"
    /\ turn_counter < max_turns
    /\ Store(player_turn_body(Battle, "1", FALSE))
    /\ last' = Call("player_turn", "1", 0, FALSE, "ok", None)

\* enemy_turn, taken after player_turn while the battle is active
counter_attack(max_turns) ==
    /\ combat_active
    /\ last.op = "player_turn"
    /\ enemy_turn(max_turns)

NextDuel ==
    \/ Idle /\ start_battle
    \/ basic_attack(DuelTurns)
    \/ counter_attack(DuelTurns)

SpecDuel == InitDuel /\ [][NextDuel]_vars

\* C30: a started battle in which the player and the enemy alternate basic
\* attacks reaches Ended for all strengths >= 0 of both sides, each basic
\* attack removing at least 1 health from its defender: with healths of at
\* most MaxDuelHealth, the battle is over once 2 * MaxDuelHealth turns have
\* been taken.
C30_DuelEnds ==
    turn_counter = DuelTurns => ~combat_active

\* ------------------------------------------------------------------------
\* Claims about sequences of equipment calls, under SpecInventory
\* ------------------------------------------------------------------------

\* the strength bonus of the weapon in the slot, 0 when the slot is empty
WeaponBonus(c) ==
    IF c.equipped_weapon = None THEN 0
    ELSE Effect(c.equipped_weapon).value

\* C31: after any sequence of equip_weapon and unequip_weapon calls with no
\* level-up in between, strength equals the strength before the sequence
\* plus the strength bonus of the weapon currently in the slot, 0 when the
\* slot is empty; the character starts with the strength of its class and
\* an empty slot.
C31_StrengthIsBasePlusWeapon ==
    character.strength =
        valid_classes[character.class].strength + WeaponBonus(character)

\* what C32 requires of equipping item_id into the empty slot and
\* unequipping it again, for each shape of the item data in either call
RoundTrip(slot, type, item_id) ==
    (/\ character[slot] = None
     /\ has_item(character, item_id)
     /\ all_items[item_id].type = type
     /\ Effect(item_id).stat # "health")
    => \A d1 \in ItemData(item_id), d2 \in ItemData(item_id) :
         LET r1 == equip(character, slot, type, item_id, d1)
             r2 == unequip(r1.character, slot, d2)
             stat == Effect(item_id).stat
         IN  /\ r1.outcome = "ok" /\ r2.outcome = "ok"
             /\ r2.character[stat] = character[stat]
             /\ r2.character[slot] = None
             /\ r2.character.inventory =
                   Append(list_remove(character.inventory, item_id), item_id)
             /\ \A other \in Items \cup {Filler} :
                   count_item(r2.character, other) = count_item(character, other)
             /\ r2.character =
                   [character EXCEPT !.inventory = r2.character.inventory]

\* C32: for an item with a well-formed effect on a stat other than health,
\* equip_weapon (or equip_armor) on an empty slot followed by unequip_weapon
\* (or unequip_armor) restores the named stat to its previous value, leaves
\* the slot empty and restores the inventory as a multiset, with the item
\* moved to the end.  It is stated of the two calls made in every state the
\* inventory operations reach.
C32_EquipUnequipRoundTrip ==
    \A item_id \in Items :
        /\ RoundTrip("equipped_weapon", "weapon", item_id)
        /\ RoundTrip("equipped_armor", "armor", item_id)

\* the sword has come back from the slot behind a potion, the slot is
\* empty and strength is that of the class
C32_Witness ==
    /\ Succeeded({"unequip_weapon"})
    /\ last.ret = "sword"
    /\ character.equipped_weapon = None
    /\ character.inventory = <<"potion", "sword">>
    /\ character.strength = valid_classes[character.class].strength

\* ------------------------------------------------------------------------
\* Gold: a Mage earns and spends gold, buys and sells every item, is killed
\* by a dragon and pays for its revival.
\* ------------------------------------------------------------------------

do_add_gold(amounts) ==
    \E amount \in amounts :
        Return("add_gold", amount, add_gold(character, amount))

\* called by main.explore for a character that has died
do_handle_character_death ==
    \E choice \in {"1", "2"} :
        /\ is_character_dead(character)
        /\ character' = handle_character_death(character, choice)
        /\ last' = Call("handle_character_death", choice, 0, FALSE, "ok", None)
        /\ UNCHANGED <<enemy, combat_active, turn_counter, battle_result>>

InitGold ==
    /\ character = create_character("Mage")
    /\ enemy = create_enemy("dragon")
    /\ combat_active = FALSE
    /\ turn_counter = 0
    /\ battle_result = <<>>
    /\ last = Call("create_character", "Mage", 0, FALSE, "ok", None)

\* the amounts passed to add_gold under SpecGold
Payments == {-60, -35, 40}

NextGold ==
    \/ do_add_gold(Payments)
    \/ do_purchase_item(Items, -MaxGold)
    \/ do_sell_item(Items)
    \/ start_battle
    \/ enemy_turn(MaxTurns)
    \/ do_handle_character_death

SpecGold == InitGold /\ [][NextGold]_vars

\* ------------------------------------------------------------------------
\* Claims about gold, under SpecGold
\* ------------------------------------------------------------------------

\* C33: after any sequence of add_gold, purchase_item and sell_item calls
\* with item costs >= 0, and of paid revives in handle_character_death, the
\* character's gold is >= 0; an add_gold call whose result would be
\* negative fails with ValueError and leaves gold unchanged.
C33_GoldNotNegative ==
    /\ character.gold >= 0
    /\ \A amount \in Payments :
          LET r == add_gold(character, amount)
          IN  IF character.gold + amount < 0
              THEN r.outcome = "ValueError" /\ r.character = character
              ELSE /\ r.outcome = "ok"
                   /\ r.character =
                         [character EXCEPT !.gold = character.gold + amount]
    /\ last.op = "add_gold" =>
          IF last.outcome = "ValueError"
          THEN character.gold + last.amount < 0
          ELSE character.gold - last.amount >= 0

\* a character that has paid for a revival and bought an item is refused a
\* payment beyond the gold it has left
C33_Witness ==
    /\ last.op = "add_gold" /\ last.outcome = "ValueError"
    /\ character.health = character.max_health \div 2
    /\ Len(character.inventory) > 0
    /\ character.gold < 35

\* ------------------------------------------------------------------------
\* Revival: a character of any small max_health, dead or at full health,
\* is revived, starts a battle with a goblin, is hit and gains experience.
\* ------------------------------------------------------------------------

InitRevive ==
    \E character_class \in Classes, max_health \in 1..MaxReviveHealth :
      \E health \in {0, max_health} :
        /\ character = [create_character(character_class) EXCEPT
                           !.max_health = max_health, !.health = health]
        /\ enemy = create_enemy("goblin")
        /\ combat_active = FALSE
        /\ turn_counter = 0
        /\ battle_result = <<>>
        /\ last = Call("create_character", character_class, 0, FALSE, "ok", None)

NextRevive ==
    \/ call_revive_character
    \/ call_gain_experience(Grants)
    \/ start_battle
    \/ enemy_turn(MaxRounds)

SpecRevive == InitRevive /\ [][NextRevive]_vars

\* ------------------------------------------------------------------------
\* Claims about revival, under SpecRevive
\* ------------------------------------------------------------------------

\* the step is a revive_character that returns true for a character whose
\* max_health is at least least
Revived(least) ==
    /\ last'.op = "revive_character" /\ last'.ret = TRUE
    /\ character.max_health >= least

\* the character is alive and neither start_battle nor gain_experience
\* fails with CharacterDeadError
Alive(c) ==
    /\ c.health > 0
    /\ ~raises_CharacterDeadError(c)
    /\ \A xp_amount \in Grants :
          gain_experience(c, xp_amount).outcome # "CharacterDeadError"

\* C34 as stated: for every dead character with max_health >= 1, when
\* revive_character returns true the character is alive afterwards, so a
\* following start_battle or gain_experience does not fail with
\* CharacterDeadError.
C34_RevivedIsAliveAsStated ==
    [][Revived(1) => Alive(character')]_vars

\* C34 as amended: for every dead character with max_health >= 2, when
\* revive_character returns true the character is alive afterwards, so a
\* following start_battle or gain_experience does not fail with
\* CharacterDeadError; with max_health = 1 the revived character has
\* health 1 // 2 = 0.
C34_RevivedIsAlive ==
    [][Revived(2) => Alive(character')]_vars

\* a character revived to health 1 of max_health 2 has started a battle
C34_Witness ==
    /\ Succeeded({"start_battle"})
    /\ character.max_health = 2
    /\ character.health = 1
    /\ combat_active

\* ------------------------------------------------------------------------
\* Claims about the turn counter, under SpecBattle
\* ------------------------------------------------------------------------

\* the step is a player_turn or an enemy_turn executed while the battle is
\* Active
TurnTaken ==
    /\ combat_active
    /\ last'.op \in {"player_turn", "enemy_turn"}
    /\ last'.outcome = "ok"

\* the step is a player_turn in which the escape succeeds
Escaped ==
    last'.op = "player_turn" /\ last'.arg = "3" /\ last'.draw

\* C35 as stated: from start_battle onward turn_counter is >= 1, never
\* decreases between one start_battle and the next, and increases by
\* exactly 1 for every player_turn or enemy_turn executed while the battle
\* is Active, whatever action is taken in it (attack, ability, failed or
\* successful escape, invalid choice, killing blow).
C35_TurnCounterAsStated ==
    [][/\ battle_result' # <<>> => turn_counter' >= 1
       /\ (battle_result # <<>> /\ last'.op # "start_battle") =>
             turn_counter' >= turn_counter
       /\ TurnTaken => turn_counter' = turn_counter + 1]_vars

\* C35 as amended: from start_battle onward turn_counter is >= 1; every
\* start_battle that succeeds sets it to 1 and between two of them it never
\* decreases; it increases by exactly 1 for every player_turn or enemy_turn
\* executed while the battle is Active (attack, ability, failed escape,
\* invalid choice, killing blow), except a player_turn in which the escape
\* succeeds, which leaves it unchanged.
C35_TurnCounter ==
    [][/\ battle_result' # <<>> => turn_counter' >= 1
       /\ (last'.op = "start_battle" /\ last'.outcome = "ok") =>
             turn_counter' = 1
       /\ (battle_result # <<>> /\ last'.op # "start_battle") =>
             turn_counter' >= turn_counter
       /\ (TurnTaken /\ ~Escaped) => turn_counter' = turn_counter + 1
       /\ (TurnTaken /\ Escaped) => turn_counter' = turn_counter]_vars

\* the player's killing blow was the third turn of the battle
C35_Witness ==
    /\ last.op = "player_turn" /\ last.outcome = "ok"
    /\ enemy.health = 0
    /\ battle_result = Result("player", enemy.xp_reward, enemy.gold_reward)
    /\ turn_counter = 4

\* ------------------------------------------------------------------------
\* character_manager.py: save_character and load_character.  The save file
\* is the sequence of its lines, each the key and the text written after
\* ": ", a sequence of characters and item ids.  The name and the quest
\* lists, which the character of this model does not have, are left out.
\* ------------------------------------------------------------------------

DigitChar(d) ==
    CASE d = 0 -> "0" [] d = 1 -> "1" [] d = 2 -> "2" [] d = 3 -> "3"
      [] d = 4 -> "4" [] d = 5 -> "5" [] d = 6 -> "6" [] d = 7 -> "7"
      [] d = 8 -> "8" [] d = 9 -> "9"

RECURSIVE str(_)
\* the text an f-string writes for an integer
str(n) ==
    IF n < 0 THEN <<"-">> \o str(0 - n)
    ELSE IF n < 10 THEN <<DigitChar(n)>>
    ELSE str(n \div 10) \o <<DigitChar(n % 10)>>

RECURSIVE join(_)
\* ",".join(items)
join(items) ==
    IF items = <<>> THEN <<>>
    ELSE IF Len(items) = 1 THEN <<items[1]>>
    ELSE <<items[1], ",">> \o join(Tail(items))

\* [v for v in value.split(",") if v]
split(value) == SelectSeq(value, LAMBDA v : v # ",")

SaveLine(key, value) == [key |-> key, value |-> value]

\* the lines save_character writes
save_character(c) ==
    <<SaveLine("CLASS", <<c.class>>),
      SaveLine("LEVEL", str(c.level)),
      SaveLine("HEALTH", str(c.health)),
      SaveLine("MAX_HEALTH", str(c.max_health)),
      SaveLine("STRENGTH", str(c.strength)),
      SaveLine("MAGIC", str(c.magic)),
      SaveLine("EXPERIENCE", str(c.experience)),
      SaveLine("GOLD", str(c.gold)),
      SaveLine("INVENTORY", join(c.inventory))>>

\* key.lower()
lower(key) ==
    CASE key = "CLASS" -> "class" [] key = "LEVEL" -> "level"
      [] key = "HEALTH" -> "health" [] key = "MAX_HEALTH" -> "max_health"
      [] key = "STRENGTH" -> "strength" [] key = "MAGIC" -> "magic"
      [] key = "EXPERIENCE" -> "experience" [] key = "GOLD" -> "gold"
      [] key = "INVENTORY" -> "inventory"

\* the value load_character stores for a line
parse_line(line) ==
    IF line.key = "INVENTORY" THEN split(line.value)
    ELSE IF line.key \in {"LEVEL", "HEALTH", "MAX_HEALTH", "STRENGTH", "MAGIC",
                          "EXPERIENCE", "GOLD"}
    THEN int(line.value)
    ELSE line.value[1]

\* the dict load_character builds from the lines: a later line of a key
\* replaces an earlier one
load_character(lines) ==
    [field \in {lower(lines[k].key) : k \in 1..Len(lines)} |->
        LET k == CHOOSE k \in 1..Len(lines) :
                     /\ lower(lines[k].key) = field
                     /\ \A j \in (k + 1)..Len(lines) : lower(lines[j].key) # field
        IN  parse_line(lines[k])]

\* character.get(key), None for a key the dict does not have
get(c, key) == IF key \in DOMAIN c THEN c[key] ELSE None

\* the loaded dict as the game reads it: the slots through get
Loaded(c) ==
    [field \in DOMAIN c \cup {"equipped_weapon", "equipped_armor"} |->
        get(c, field)]

\* main.save_game followed by main.load_game of the same name
save_and_load ==
    /\ character' = Loaded(load_character(save_character(character)))
    /\ last' = Call("load_character", None, 0, FALSE, "ok", None)
    /\ UNCHANGED <<enemy, combat_active, turn_counter, battle_result>>

NextSave ==
    \/ do_add_item_to_inventory(Items)
    \/ do_use_item(Items)
    \/ do_equip_weapon(Items)
    \/ do_equip_armor(Items)
    \/ do_unequip_weapon
    \/ do_unequip_armor
    \/ save_and_load

SpecSave == InitInventory /\ [][NextSave]_vars

\* ------------------------------------------------------------------------
\* Claims about saving and loading, under SpecSave
\* ------------------------------------------------------------------------

\* C36: save_character followed by load_character of the same name returns
\* a character equal to the saved one in every field that play depends on,
\* including equipped_weapon and equipped_armor, so an equipped item and
\* its applied stat bonus stay consistent across a save/load cycle.
C36_SaveLoadRoundTrip ==
    [][last'.op = "load_character" =>
          /\ \A field \in DOMAIN character :
                get(character', field) = character[field]
          /\ C31_StrengthIsBasePlusWeapon => C31_StrengthIsBasePlusWeapon']_vars

====
